---- MODULE Spec2Model ----
(***************************************************************************)
(* The six helpers of exam/6shapely_geometric_object.ipynb and the shapely *)
(* 1.8.5.post1 / GEOS operations they delegate to (the version is the one  *)
(* the notebook's install cell reports).                                   *)
(*                                                                         *)
(* Coordinates are integers.  The grid inputs are in whole units; the      *)
(* notebook's own inputs (two decimals) are written in hundredths.         *)
(* Floating point is abstracted to exact arithmetic: a number returned by  *)
(* an accessor is a quotient num/den of two surds, a surd being a finite   *)
(* sum of c * sqrt(b) with b squarefree, kept as the set of pairs <<b, c>> *)
(* with c # 0.  Square roots of distinct squarefree integers are linearly  *)
(* independent over the rationals, so two surds are equal as real numbers  *)
(* exactly when the sets are equal.                                        *)
(***************************************************************************)
EXTENDS Integers, Sequences, FiniteSets, TLC

VARIABLES call, pc, geom, out, env, log

vars == <<call, pc, geom, out, env, log>>

(* ------------------------------ bounds --------------------------------- *)

\* grid coordinates are 0..GridMax
GridMax == 1
\* longest point sequence handed to create_line_geom
MaxLinePts == 3
\* longest coordinate sequence handed to create_poly_geom
MaxPolyPts == 4
\* geometries a session keeps bound at once
MaxGeoms == 2

(* --------------------------- integer helpers --------------------------- *)

Abs(n) == IF n < 0 THEN -n ELSE n

MaxOf(S) == CHOOSE a \in S : \A b \in S : b <= a

RECURSIVE GCD(_, _)
GCD(a, b) == IF b = 0 THEN Abs(a) ELSE GCD(b, a % b)

RECURSIVE SumSeq(_)
SumSeq(s) == IF s = <<>> THEN 0 ELSE Head(s) + SumSeq(Tail(s))

RECURSIVE GCDSeq(_)
GCDSeq(s) == IF s = <<>> THEN 0 ELSE GCD(Head(s), GCDSeq(Tail(s)))

(* ------------------------------- surds --------------------------------- *)

SurdZero == {}

IntSurd(n) == IF n = 0 THEN {} ELSE {<<1, n>>}

Radicands(s) == {t[1] : t \in s}

Coef(s, b) == IF \E t \in s : t[1] = b THEN (CHOOSE t \in s : t[1] = b)[2] ELSE 0

SurdAdd(s, t) ==
    {<<b, Coef(s, b) + Coef(t, b)>> :
        b \in {r \in Radicands(s) \cup Radicands(t) : Coef(s, r) + Coef(t, r) # 0}}

SurdScale(s, n) == IF n = 0 THEN {} ELSE {<<t[1], n * t[2]>> : t \in s}

RECURSIVE SurdSumSeq(_)
SurdSumSeq(s) == IF s = <<>> THEN SurdZero ELSE SurdAdd(Head(s), SurdSumSeq(Tail(s)))

\* a returned number: num / den
Num(n, d) == [num |-> n, den |-> d]

\* the returned number q is the rational n / d (d # 0)
NumIs(q, n, d) == SurdScale(q.num, d) = SurdScale(q.den, n)

(* -------------------- Python values and geometries --------------------- *)

\* a coordinate tuple (x, y) as an element of a Python list
TupleOf(xy) == [type |-> "tuple", coords |-> <<xy>>]

\* shapely.geometry.Point(x, y)
Point(x, y) == [type |-> "Point", coords |-> <<<<x, y>>>>]

\* the empty point GEOS returns as the centroid of an empty geometry
EmptyPoint == [type |-> "Point", coords |-> <<>>]

NoGeom == [type |-> "None", coords |-> <<>>]

Returned(v) == [raised |-> FALSE, value |-> v]

Raised(e) == [raised |-> TRUE, value |-> [type |-> e, coords |-> <<>>]]

\* shapely's _coords(o): the coordinate tuple of a list element, which is a
\* Point (o.coords[0]) or the tuple itself
coords_of(o) == o.coords[1]

(* ---------------------------- constructors ----------------------------- *)

create_point_geom(x_coord, y_coord) == Returned(Point(x_coord, y_coord))

\* mutant: consecutive equal points are dropped ("distinct" points only)
geos_linestring_dedup(ob) ==
    LET m == Len(ob)
        keep == {i \in 1..m : i = 1 \/ coords_of(ob[i]) # coords_of(ob[i - 1])}
        pick[k \in 0..m] ==
            IF k = 0 THEN <<>>
            ELSE IF k \in keep THEN Append(pick[k - 1], coords_of(ob[k]))
            ELSE pick[k - 1]
    IN  IF m = 0 THEN <<>> ELSE pick[m]

\* shapely.geometry.linestring.geos_linestring_from_py on a list with at
\* least one element: the list's coordinate tuples, copied in order
geos_linestring_coords(ob) == [i \in 1..Len(ob) |-> coords_of(ob[i])]

\* mutant: the length test comes before the empty test
LineString_strict(points) ==
    IF Len(points) < 2 THEN Raised("ValueError")
    ELSE Returned([type |-> "LineString", coords |-> geos_linestring_coords(points)])

\* shapely.geometry.LineString(coordinates): empty input gives the empty
\* geometry, one element raises ValueError("LineStrings must have at least 2
\* coordinate tuples"), anything longer is copied
LineString(points) ==
    IF Len(points) = 0 THEN Returned([type |-> "LineString", coords |-> <<>>])
    ELSE IF Len(points) < 2 THEN Raised("ValueError")
    ELSE Returned([type |-> "LineString", coords |-> geos_linestring_coords(points)])

create_line_geom(points) == LineString(points)

\* mutant: the ring is never closed
geos_linearring_open(ob) == [i \in 1..Len(ob) |-> coords_of(ob[i])]

\* shapely.geometry.polygon.geos_linearring_from_py on m >= 3 elements: the
\* first coordinate is appended when m = 3 or when first and last differ
geos_linearring_coords(ob) ==
    LET m == Len(ob)
        first == coords_of(ob[1])
        last == coords_of(ob[m])
        M == IF m = 3 \/ first[1] # last[1] \/ first[2] # last[2] THEN m + 1 ELSE m
    IN  [i \in 1..M |-> IF i <= m THEN coords_of(ob[i]) ELSE first]

\* mutant: the length test comes before the empty test
Polygon_strict(shell) ==
    IF Len(shell) < 3 THEN Raised("ValueError")
    ELSE Returned([type |-> "Polygon", coords |-> geos_linearring_coords(shell),
                   interiors |-> <<>>])

\* shapely.geometry.Polygon(shell), holes left at None: empty input gives the
\* empty polygon,
\* one or two elements raise ValueError("A LinearRing must have at least 3
\* coordinate tuples"); the ring is not validated (an invalid polygon is
\* built, is_valid reports it)
Polygon(shell) ==
    IF Len(shell) = 0 THEN Returned([type |-> "Polygon", coords |-> <<>>, interiors |-> <<>>])
    ELSE IF Len(shell) < 3 THEN Raised("ValueError")
    ELSE Returned([type |-> "Polygon", coords |-> geos_linearring_coords(shell),
                   interiors |-> <<>>])

create_poly_geom(coords) == Polygon(coords)

(* --------------------------- GEOS measures ----------------------------- *)

\* geos::geom::Coordinate::distance as a surd: sqrt(dx^2 + dy^2) = a * sqrt(b)
\* with a the largest integer whose square divides dx^2 + dy^2
Distance(p, q) ==
    LET dx == q[1] - p[1]
        dy == q[2] - p[2]
        k == dx * dx + dy * dy
        a == MaxOf({r \in 1..(Abs(dx) + Abs(dy)) : k % (r * r) = 0})
    IN  IF k = 0 THEN SurdZero ELSE {<<k \div (a * a), a>>}

\* mutant: the last segment of the sequence is left out
CoordSeqLength_short(pts) ==
    SurdSumSeq([i \in 1..(IF Len(pts) < 2 THEN 0 ELSE Len(pts) - 2) |->
                    Distance(pts[i], pts[i + 1])])

\* geos::algorithm::Length::ofLine: the sum of the segment lengths
CoordSeqLength(pts) ==
    SurdSumSeq([i \in 1..(IF Len(pts) = 0 THEN 0 ELSE Len(pts) - 1) |->
                    Distance(pts[i], pts[i + 1])])

\* geos::algorithm::Area::ofRingSigned, doubled: the shoelace sum over the
\* consecutive coordinates of a ring
RingSigned2(ring) ==
    SumSeq([i \in 1..(IF Len(ring) = 0 THEN 0 ELSE Len(ring) - 1) |->
                ring[i][1] * ring[i + 1][2] - ring[i + 1][1] * ring[i][2]])

\* mutant: the signed area, without the absolute value
RingArea2_signed(ring) == IF Len(ring) < 3 THEN 0 ELSE RingSigned2(ring)

\* geos::algorithm::Area::ofRing, doubled: fewer than three coordinates have
\* no area, otherwise the absolute value of the signed area
RingArea2(ring) == IF Len(ring) < 3 THEN 0 ELSE Abs(RingSigned2(ring))

\* mutant: the shoelace sum over the coordinates closed into a ring, whatever
\* the geometry's type
GeomArea_any(g) ==
    IF g.coords = <<>> THEN Num(SurdZero, IntSurd(1))
    ELSE Num(IntSurd(Abs(RingSigned2(Append(g.coords, g.coords[1])))), IntSurd(2))

\* Geometry::getArea: 0.0 for a point and a line (the base class), for a
\* polygon the area of the shell minus the areas of the holes; a polygon of
\* this notebook has no holes
GeomArea(g) ==
    IF g.type = "Polygon"
        THEN Num(IntSurd(RingArea2(g.coords)
                    - SumSeq([i \in 1..Len(g.interiors) |-> RingArea2(g.interiors[i])])),
                 IntSurd(2))
    ELSE Num(SurdZero, IntSurd(1))

\* Geometry::getLength: 0.0 for a point, the length of a line, for a polygon
\* the length of the shell plus the lengths of the holes (none here)
GeomLength(g) ==
    IF g.type = "Point" THEN Num(SurdZero, IntSurd(1))
    ELSE IF g.type = "Polygon"
        THEN Num(SurdAdd(CoordSeqLength(g.coords),
                    SurdSumSeq([i \in 1..Len(g.interiors) |-> CoordSeqLength(g.interiors[i])])),
                 IntSurd(1))
    ELSE Num(CoordSeqLength(g.coords), IntSurd(1))

\* geos::algorithm::Centroid::area2
TriArea2(p1, p2, p3) ==
    (p2[1] - p1[1]) * (p3[2] - p1[2]) - (p3[1] - p1[1]) * (p2[2] - p1[2])

\* Centroid::addShell: one triangle (base, pts[i], pts[i+1]) per segment, its
\* doubled signed area as weight.  The orientation sign that addTriangle
\* applies multiplies cg3 and areasum2 alike and is left out; the weights are
\* divided by their common divisor, which leaves the quotient unchanged and
\* keeps the products of the notebook's coordinates in range.
ShellWeights(pts) ==
    LET raw == [i \in 1..(Len(pts) - 1) |-> TriArea2(pts[1], pts[i], pts[i + 1])]
        g == GCDSeq(raw)
    IN  IF g = 0 THEN raw ELSE [i \in 1..Len(raw) |-> raw[i] \div g]

\* Centroid::getCentroid for a geometry with area: cg3 / 3 / areasum2
AreaCentroid(pts) ==
    LET w == ShellWeights(pts)
        n == Len(w)
        areasum2 == SumSeq(w)
        cg3(c) == SumSeq([i \in 1..n |-> w[i] * (pts[1][c] + pts[i][c] + pts[i + 1][c])])
    IN  <<Num(IntSurd(cg3(1)), IntSurd(3 * areasum2)),
          Num(IntSurd(cg3(2)), IntSurd(3 * areasum2))>>

\* Centroid::addLineSegments and getCentroid for a geometry with length:
\* lineCentSum / totalLength, each segment's midpoint weighted by its length
LineCentroid(pts) ==
    LET n == Len(pts) - 1
        sum(c) == SurdSumSeq([i \in 1..n |->
                      SurdScale(Distance(pts[i], pts[i + 1]), pts[i][c] + pts[i + 1][c])])
        total == SurdScale(CoordSeqLength(pts), 2)
    IN  <<Num(sum(1), total), Num(sum(2), total)>>

\* Centroid::addPoint and getCentroid for points only: ptCentSum / ptCount;
\* addLineSegments adds the first coordinate of a line of length zero
PointCentroid(p) == <<Num(IntSurd(p[1]), IntSurd(1)), Num(IntSurd(p[2]), IntSurd(1))>>

\* mutant: the mean of the stored coordinates
GeomCentroid_mean(g) ==
    IF g.coords = <<>> THEN EmptyPoint
    ELSE LET n == Len(g.coords)
             s(c) == SumSeq([i \in 1..n |-> g.coords[i][c]])
         IN  [type |-> "Point",
              coords |-> << <<Num(IntSurd(s(1)), IntSurd(n)), Num(IntSurd(s(2)), IntSurd(n))>> >>]

\* Geometry::getCentroid: an empty point for an empty geometry; otherwise the
\* area centroid when the doubled area sum is not zero, else the line
\* centroid when the total length is not zero, else the point centroid
GeomCentroid(g) ==
    IF g.coords = <<>> THEN EmptyPoint
    ELSE LET pts == g.coords
             c == IF g.type = "Polygon" /\ SumSeq(ShellWeights(pts)) # 0
                      THEN AreaCentroid(pts)
                  ELSE IF g.type # "Point" /\ CoordSeqLength(pts) # SurdZero
                      THEN LineCentroid(pts)
                  ELSE PointCentroid(pts[1])
         IN  [type |-> "Point", coords |-> <<c>>]

(* ----------------------------- accessors ------------------------------- *)

\* the bytecode of a helper's body that matters to its caller: the attribute
\* read and the return; none of the helpers tests its argument's type
get_centroid_ops == <<"LOAD_ATTR centroid", "RETURN_VALUE">>
get_area_ops == <<"LOAD_ATTR area", "RETURN_VALUE">>
get_length_ops == <<"LOAD_ATTR length", "RETURN_VALUE">>

get_centroid(g) == GeomCentroid(g)

\* mutant: a running total kept between the calls
get_area_total(polygon) ==
    LET a == GeomArea(polygon)
    IN  Num(SurdScale(a.num, 1 + Cardinality(log.get_area)), a.den)

get_area(polygon) == GeomArea(polygon)

get_length(polygon) == GeomLength(polygon)

(* ------------------------------- inputs -------------------------------- *)

GridPts == (0..GridMax) \X (0..GridMax)

SeqsUpTo(S, n) == UNION {[1..k -> S] : k \in 0..n}

AsTuples(pts) == [i \in 1..Len(pts) |-> TupleOf(pts[i])]

\* the points as Point objects, each built by create_point_geom
AsPoints(pts) == [i \in 1..Len(pts) |-> create_point_geom(pts[i][1], pts[i][2]).value]

AsMixed(pts) ==
    [i \in 1..Len(pts) |-> IF i % 2 = 1 THEN AsPoints(pts)[i] ELSE TupleOf(pts[i])]

PointCall(x, y) == [fn |-> "create_point_geom", par |-> <<x, y>>]
LineCall(points) == [fn |-> "create_line_geom", par |-> points]
PolyCall(coords) == [fn |-> "create_poly_geom", par |-> coords]

\* the notebook's own calls, coordinates in hundredths
ExamplePoint == PointCall(0, 110)
ExampleLinePts == << <<4520, 2234>>, <<10022, -320>> >>
ExampleLine == LineCall(AsPoints(ExampleLinePts))
ExamplePolyPts == << <<4520, 2234>>, <<10022, -320>>, <<7000, 1020>> >>
ExamplePoly == PolyCall(AsTuples(ExamplePolyPts))

PointCalls == {PointCall(p[1], p[2]) : p \in GridPts} \cup {ExamplePoint}

LineCalls ==
    {LineCall(AsTuples(pts)) : pts \in SeqsUpTo(GridPts, MaxLinePts)}
        \cup {LineCall(AsPoints(pts)) : pts \in SeqsUpTo(GridPts, MaxLinePts)}
        \cup {LineCall(AsMixed(pts)) : pts \in SeqsUpTo(GridPts, MaxLinePts)}
        \cup {ExampleLine}

PolyCalls ==
    {PolyCall(AsTuples(pts)) : pts \in SeqsUpTo(GridPts, MaxPolyPts)} \cup {ExamplePoly}

\* the calls of a session: a point, a two-point line of Point objects and a
\* clockwise triangle as in the notebook, in whole units, and the degenerate
\* calls (empty lists, lists too short)
SessionCalls ==
    {PointCall(0, 1),
     LineCall(AsPoints(<< <<0, 0>>, <<1, 1>> >>)),
     PolyCall(AsTuples(<< <<0, 0>>, <<0, 1>>, <<1, 0>> >>)),
     LineCall(<<>>), LineCall(AsTuples(<< <<0, 0>> >>)),
     PolyCall(<<>>), PolyCall(AsTuples(<< <<0, 0>>, <<1, 1>> >>))}

\* the coordinate tuples a call's list holds, whatever its elements are
Given(c) == [i \in 1..Len(c.par) |-> c.par[i].coords[1]]

Apply(c) ==
    CASE c.fn = "create_point_geom" -> create_point_geom(c.par[1], c.par[2])
      [] c.fn = "create_line_geom" -> create_line_geom(c.par)
      [] c.fn = "create_poly_geom" -> create_poly_geom(c.par)

(* --------------------------- one constructor call ---------------------- *)

NoOut == [fn |-> "none", ops |-> <<>>, raised |-> FALSE, value |-> {}]

NoCall == [fn |-> "none", par |-> <<>>]

EmptyLog == [get_centroid |-> {}, get_area |-> {}, get_length |-> {}]

Init ==
    /\ \/ call \in PointCalls
       \/ call \in LineCalls
       \/ call \in PolyCalls
    /\ pc = "start"
    /\ geom = NoGeom
    /\ out = NoOut
    /\ env = <<>>
    /\ log = EmptyLog

\* point1 = create_point_geom(x, y)
CreatePoint ==
    /\ pc = "start"
    /\ call.fn = "create_point_geom"
    /\ LET r == create_point_geom(call.par[1], call.par[2])
       IN  /\ pc' = IF r.raised THEN "raised" ELSE "built"
           /\ geom' = IF r.raised THEN NoGeom ELSE r.value
    /\ UNCHANGED <<call, out, env, log>>

\* line1 = create_line_geom(points): the name is bound when the call returns
CreateLine ==
    /\ pc = "start"
    /\ call.fn = "create_line_geom"
    /\ LET r == create_line_geom(call.par)
       IN  /\ pc' = IF r.raised THEN "raised" ELSE "built"
           /\ geom' = IF r.raised THEN NoGeom ELSE r.value
    /\ UNCHANGED <<call, out, env, log>>

\* polygon = create_poly_geom(coords)
CreatePoly ==
    /\ pc = "start"
    /\ call.fn = "create_poly_geom"
    /\ LET r == create_poly_geom(call.par)
       IN  /\ pc' = IF r.raised THEN "raised" ELSE "built"
           /\ geom' = IF r.raised THEN NoGeom ELSE r.value
    /\ UNCHANGED <<call, out, env, log>>

GetCentroid ==
    /\ pc = "built"
    /\ out' = [fn |-> "get_centroid", ops |-> get_centroid_ops, raised |-> FALSE,
               value |-> get_centroid(geom)]
    /\ UNCHANGED <<call, pc, geom, env, log>>

GetArea ==
    /\ pc = "built"
    /\ out' = [fn |-> "get_area", ops |-> get_area_ops, raised |-> FALSE,
               value |-> get_area(geom)]
    /\ UNCHANGED <<call, pc, geom, env, log>>

GetLength ==
    /\ pc = "built"
    /\ out' = [fn |-> "get_length", ops |-> get_length_ops, raised |-> FALSE,
               value |-> get_length(geom)]
    /\ UNCHANGED <<call, pc, geom, env, log>>

Next == CreatePoint \/ CreateLine \/ CreatePoly \/ GetCentroid \/ GetArea \/ GetLength

Spec == Init /\ [][Next]_vars

(* ------------------------------ a session ------------------------------ *)

SessionInit ==
    /\ call = NoCall
    /\ pc = "session"
    /\ geom = NoGeom
    /\ out = NoOut
    /\ env = <<>>
    /\ log = EmptyLog

\* a constructor call of the session: the geometry it returns is bound to a
\* new name; a call that raises binds nothing
SessionCreate ==
    \E c \in SessionCalls :
        /\ Len(env) < MaxGeoms
        /\ LET r == Apply(c)
           IN  env' = IF r.raised THEN env ELSE Append(env, r.value)
        /\ UNCHANGED <<call, pc, geom, out, log>>

SessionGetCentroid ==
    \E i \in 1..Len(env) :
        /\ log' = [log EXCEPT !.get_centroid = @ \cup {<<i, get_centroid(env[i])>>}]
        /\ UNCHANGED <<call, pc, geom, out, env>>

SessionGetArea ==
    \E i \in 1..Len(env) :
        /\ log' = [log EXCEPT !.get_area = @ \cup {<<i, get_area(env[i])>>}]
        /\ UNCHANGED <<call, pc, geom, out, env>>

SessionGetLength ==
    \E i \in 1..Len(env) :
        /\ log' = [log EXCEPT !.get_length = @ \cup {<<i, get_length(env[i])>>}]
        /\ UNCHANGED <<call, pc, geom, out, env>>

SessionNext == SessionCreate \/ SessionGetCentroid \/ SessionGetArea \/ SessionGetLength

SpecSession == SessionInit /\ [][SessionNext]_vars

(* ------------------------------- claims -------------------------------- *)

IsLineCall == call.fn = "create_line_geom"

IsPolyCall == call.fn = "create_poly_geom"

Reverse(pts) == [i \in 1..Len(pts) |-> pts[Len(pts) + 1 - i]]

\* the given coordinates followed by the first of them
Closed(pts) == IF pts = <<>> THEN <<>> ELSE Append(pts, pts[1])

\* the sum of the distances between consecutive points
RECURSIVE PathLength(_)
PathLength(pts) ==
    IF Len(pts) < 2 THEN SurdZero
    ELSE SurdAdd(Distance(pts[1], pts[2]), PathLength(Tail(pts)))

\* the shoelace sum over the vertices taken cyclically
Shoelace2(pts) ==
    LET n == Len(pts)
        nxt(i) == pts[(i % n) + 1]
    IN  SumSeq([i \in 1..n |-> pts[i][1] * nxt(i)[2] - nxt(i)[1] * pts[i][2]])

\* the point p lies at (nx / dx, ny / dy)
CentroidAt(p, nx, dx, ny, dy) ==
    /\ Len(p.coords) = 1
    /\ p.coords[1][1].den # SurdZero
    /\ p.coords[1][2].den # SurdZero
    /\ NumIs(p.coords[1][1], nx, dx)
    /\ NumIs(p.coords[1][2], ny, dy)

Sign(n) == IF n < 0 THEN -1 ELSE 1

\* the rational number q, times scale, lies in lo..(hi - 1)
RationalWithin(q, scale, lo, hi) ==
    LET n == Coef(q.num, 1) * Sign(Coef(q.den, 1))
        d == Abs(Coef(q.den, 1))
    IN  /\ Radicands(q.num) \subseteq {1}
        /\ Radicands(q.den) = {1}
        /\ lo * d <= scale * n
        /\ scale * n < hi * d

Cross(p, q, r) == (q[1] - p[1]) * (r[2] - p[2]) - (q[2] - p[2]) * (r[1] - p[1])

Side(p, q, r) == IF Cross(p, q, r) > 0 THEN 1 ELSE IF Cross(p, q, r) < 0 THEN -1 ELSE 0

\* r lies on the segment p q
OnSegment(p, q, r) ==
    /\ Cross(p, q, r) = 0
    /\ (p[1] <= r[1] /\ r[1] <= q[1]) \/ (q[1] <= r[1] /\ r[1] <= p[1])
    /\ (p[2] <= r[2] /\ r[2] <= q[2]) \/ (q[2] <= r[2] /\ r[2] <= p[2])

SegmentsMeet(a, b, c, d) ==
    \/ Side(a, b, c) # Side(a, b, d) /\ Side(c, d, a) # Side(c, d, b)
    \/ OnSegment(a, b, c) \/ OnSegment(a, b, d)
    \/ OnSegment(c, d, a) \/ OnSegment(c, d, b)

\* a closed ring self-intersects: two edges that are not neighbours meet, or
\* two neighbours share more than their common vertex
SelfIntersects(ring) ==
    LET m == Len(ring) - 1
        neighbours(i, j) == j = i + 1 \/ (i = 1 /\ j = m)
    IN  \E i \in 1..m : \E j \in (i + 1)..m :
            IF neighbours(i, j)
            THEN LET u == IF j = i + 1 THEN ring[i] ELSE ring[i + 1]
                     v == IF j = i + 1 THEN ring[i + 1] ELSE ring[1]
                     w == IF j = i + 1 THEN ring[j + 1] ELSE ring[j]
                 IN  /\ u # v
                     /\ w # v
                     /\ OnSegment(u, v, w) \/ OnSegment(v, w, u)
            ELSE SegmentsMeet(ring[i], ring[i + 1], ring[j], ring[j + 1])

\* C1 as stated: create_poly_geom on n >= 3 tuples returns a Polygon without
\* holes whose exterior ring is the input followed by its first tuple, or the
\* input itself whenever the input's last tuple equals its first.
C1_AsStated ==
    (IsPolyCall /\ Len(call.par) >= 3 /\ pc # "start") =>
        /\ pc = "built"
        /\ geom.type = "Polygon"
        /\ geom.interiors = <<>>
        /\ geom.coords = IF Given(call)[Len(call.par)] = Given(call)[1]
                             THEN Given(call) ELSE Closed(Given(call))

\* C1 amended: create_poly_geom on n >= 3 tuples returns a Polygon without
\* holes whose exterior ring is the input in the order given followed by its
\* first tuple; only when n >= 4 and the last tuple equals the first is the
\* ring the input itself.  With n = 3 the first tuple is appended even when
\* the third tuple equals the first.
C1_ClosedRing ==
    (IsPolyCall /\ Len(call.par) >= 3 /\ pc # "start") =>
        /\ pc = "built"
        /\ geom.type = "Polygon"
        /\ geom.interiors = <<>>
        /\ geom.coords = IF Len(call.par) >= 4 /\ Given(call)[Len(call.par)] = Given(call)[1]
                             THEN Given(call) ELSE Closed(Given(call))

C1_Witness ==
    /\ IsPolyCall
    /\ pc = "built"
    /\ Len(call.par) = 3
    /\ Given(call)[3] = Given(call)[1]
    /\ Given(call)[2] # Given(call)[1]
    /\ Len(geom.coords) = 4

\* C2: create_line_geom on two or more points returns a LineString whose
\* coordinates are the input points in the order given, and the same points
\* given as Point objects built by create_point_geom or as coordinate tuples
\* give equal LineStrings.
C2_LineCoords ==
    (IsLineCall /\ Len(call.par) >= 2 /\ pc # "start") =>
        /\ pc = "built"
        /\ geom.type = "LineString"
        /\ geom.coords = Given(call)
        /\ geom = create_line_geom(AsTuples(Given(call))).value
        /\ geom = create_line_geom(AsPoints(Given(call))).value

C2_Witness ==
    /\ IsLineCall
    /\ pc = "built"
    /\ Len(call.par) = 3
    /\ call.par = AsPoints(Given(call))
    /\ Given(call)[1] = Given(call)[2]
    /\ Given(call)[3] # Given(call)[2]

\* C3 as stated: create_line_geom raises exactly when fewer than two distinct
\* points are supplied (no point, one point, or the same point repeated).
C3_AsStated ==
    (IsLineCall /\ pc # "start") =>
        (pc = "raised" <=> Cardinality({Given(call)[i] : i \in 1..Len(call.par)}) < 2)

\* C3 amended: create_line_geom raises exactly when one point is supplied;
\* the empty sequence gives the empty LineString and two or more points give
\* a LineString even when they are all the same coordinate.
C3_RaisesOnOnePoint ==
    (IsLineCall /\ pc # "start") =>
        /\ pc = "raised" <=> Len(call.par) = 1
        /\ Len(call.par) = 0 => geom = [type |-> "LineString", coords |-> <<>>]
        /\ Len(call.par) >= 2 => geom.type = "LineString" /\ Len(geom.coords) = Len(call.par)

C3_Witness == IsLineCall /\ Len(call.par) = 1 /\ pc = "raised" /\ geom = NoGeom

\* C4 as stated: create_poly_geom raises exactly when fewer than three tuples
\* are supplied or the ring closing the given sequence self-intersects.
C4_AsStated ==
    (IsPolyCall /\ pc # "start") =>
        (pc = "raised" <=>
            (Len(call.par) < 3 \/ SelfIntersects(Closed(Given(call)))))

\* C4 amended: create_poly_geom raises exactly when one or two tuples are
\* supplied; the empty sequence gives the empty Polygon and three or more
\* tuples give a Polygon whether or not the ring self-intersects.
C4_RaisesOnOneOrTwo ==
    (IsPolyCall /\ pc # "start") =>
        /\ pc = "raised" <=> Len(call.par) \in {1, 2}
        /\ pc = "built" => geom.type = "Polygon"
        /\ Len(call.par) = 0 => geom.coords = <<>>

C4_Witness ==
    /\ IsPolyCall
    /\ pc = "built"
    /\ Len(call.par) = 4
    /\ SelfIntersects(geom.coords)
    /\ Cardinality({Given(call)[i] : i \in 1..4}) = 4

\* C5: get_length of a LineString is the sum of the distances between its
\* consecutive points (for two points, their distance); get_length of a
\* Polygon is the length of the given sequence closed back to its first
\* point, plus the lengths of the interior rings.  The notebook's line
\* measures 60.66 rounded to two decimals.
C5_Length ==
    (pc = "built" /\ out.fn = "get_length") =>
        /\ ~out.raised
        /\ out.value.den = IntSurd(1)
        /\ geom.type = "LineString" => out.value.num = PathLength(Given(call))
        /\ (geom.type = "LineString" /\ Len(call.par) = 2) =>
                out.value.num = Distance(Given(call)[1], Given(call)[2])
        /\ geom.type = "Polygon" =>
                out.value.num =
                    SurdAdd(PathLength(Closed(Given(call))),
                            SurdSumSeq([i \in 1..Len(geom.interiors) |->
                                            PathLength(geom.interiors[i])]))
        /\ call = ExampleLine =>
                \E t \in out.value.num :
                    /\ out.value.num = {t}
                    /\ 12131 * 12131 <= 4 * t[2] * t[2] * t[1]
                    /\ 4 * t[2] * t[2] * t[1] < 12133 * 12133

C5_Witness ==
    /\ pc = "built"
    /\ out.fn = "get_length"
    /\ geom.type = "Polygon"
    /\ Len(call.par) = 3
    /\ Cardinality(out.value.num) = 2

\* C6: get_area of a polygon built from three or more vertices is half the
\* absolute value of the shoelace sum over the closed ring, is not negative,
\* and is the same for the reversed vertex order; the notebook's triangle,
\* given clockwise, measures 17.28 rounded to two decimals.
C6_Area ==
    (IsPolyCall /\ Len(call.par) >= 3 /\ pc = "built" /\ out.fn = "get_area") =>
        /\ NumIs(out.value, Abs(Shoelace2(Given(call))), 2)
        /\ out.value.den = IntSurd(2)
        /\ \A t \in out.value.num : t[1] = 1 /\ t[2] > 0
        /\ out.value = get_area(create_poly_geom(AsTuples(Reverse(Given(call)))).value)
        /\ call = ExamplePoly =>
                /\ Shoelace2(Given(call)) < 0
                /\ RationalWithin(out.value, 1, 172750, 172850)

C6_Witness ==
    /\ IsPolyCall
    /\ pc = "built"
    /\ out.fn = "get_area"
    /\ ~SelfIntersects(geom.coords)
    /\ Shoelace2(Given(call)) < 0
    /\ out.value.num # SurdZero

\* C7: get_area of a Point or of a LineString does not fail and returns zero.
C7_ZeroArea ==
    (pc = "built" /\ out.fn = "get_area" /\ geom.type \in {"Point", "LineString"}) =>
        /\ ~out.raised
        /\ out.value.den # SurdZero
        /\ NumIs(out.value, 0, 1)

C7_Witness ==
    /\ pc = "built"
    /\ out.fn = "get_area"
    /\ geom.type = "LineString"
    /\ Len(geom.coords) = 3
    /\ Shoelace2(geom.coords) # 0

\* C8: get_centroid returns a Point for every geometry the constructors
\* build, without failing: the point itself for a Point, the midpoint for a
\* two-point LineString, the mean of the three vertices for a triangle
\* (three vertices not on one line); the notebook's triangle gives
\* (71.8067, 9.78) rounded to four decimals.
C8_Centroid ==
    (pc = "built" /\ out.fn = "get_centroid") =>
        LET g == Given(call)
        IN  /\ ~out.raised
            /\ out.value.type = "Point"
            /\ geom.coords # <<>> => Len(out.value.coords) = 1
            /\ geom.type = "Point" =>
                    CentroidAt(out.value, call.par[1], 1, call.par[2], 1)
            /\ (geom.type = "LineString" /\ Len(call.par) = 2) =>
                    CentroidAt(out.value, g[1][1] + g[2][1], 2, g[1][2] + g[2][2], 2)
            /\ (geom.type = "Polygon" /\ Len(call.par) = 3
                    /\ Cross(g[1], g[2], g[3]) # 0) =>
                    CentroidAt(out.value, g[1][1] + g[2][1] + g[3][1], 3,
                               g[1][2] + g[2][2] + g[3][2], 3)
            /\ call = ExamplePoly =>
                    /\ RationalWithin(out.value.coords[1][1], 1000, 7180665, 7180675)
                    /\ RationalWithin(out.value.coords[1][2], 1000, 977995, 978005)

C8_Witness ==
    /\ pc = "built"
    /\ out.fn = "get_centroid"
    /\ call = ExamplePoly
    /\ CentroidAt(out.value, 21542, 3, 2934, 3)

\* every logged call of fn on one geometry returned the same value
SameEveryCall(fn) == \A e1 \in log[fn] : \A e2 \in log[fn] : e1[1] = e2[1] => e1[2] = e2[2]

TypeTests == {"CALL isinstance", "CALL type", "LOAD_ATTR geom_type"}

\* C10 as stated: get_length checks the type of its input and selects what
\* it returns by that type, the length of the line for a LineString.
C10_AsStated ==
    (pc = "built" /\ out.fn = "get_length") =>
        /\ \E i \in 1..Len(out.ops) : out.ops[i] \in TypeTests
        /\ geom.type = "LineString" => out.value.num = PathLength(Given(call))

====
